---- MODULE Spec2Model ----
(***************************************************************************)
(* A model of writer_bot.py, the Markov-chain text generator (main,        *)
(* build_prefix_suffix_table, generate_text) and its Hashtable, an open    *)
(* addressing table that probes linearly by decrementing the index.        *)
(*                                                                         *)
(* A string is the sequence of its characters' code points, so that _hash  *)
(* is computed as the code computes it.  A Python list is a sequence; the  *)
(* list _pairs is a function on 0 .. size-1 (Python's indices).  None is   *)
(* the empty sequence; a value that may be None is boxed (<<v>>).          *)
(*                                                                         *)
(* Three specifications share the variables:                               *)
(*   Spec       the program: main from its input to its exit               *)
(*   TableSpec  a Hashtable on its own, its methods called in any order    *)
(*              (FairTableSpec: with put's loop running on)                *)
(*   HuffSpec   huffman.py: main from its input file to its last print     *)
(* put's loop is modelled statement by statement (it may never end), get   *)
(* pass by pass in TableSpec and as a whole in Spec.  huffman.py (the tree *)
(* rebuilt from two traversals, its postorder, the decoding walk) is       *)
(* modelled in the last part of the module.                                *)
(***************************************************************************)
EXTENDS Integers, Sequences, FiniteSets, TLC

VARIABLES
    pc,          \* the position of the running program
    table_size,  \* main: int(input()), the second line of input
    prefix_size, \* main: int(input()), the third line of input
    word_count,  \* main: int(input()), the fourth line of input
    file,        \* the words of the file named by the first line of input
    contents,    \* main: what read_file returned (boxed), None before
    table,       \* the Hashtable object (NoTable before it is constructed)
    idx,         \* build_prefix_suffix_table: position of the for loop in contents
    prefix,      \* the local list `prefix` of the build or the generation
    put_frame,   \* the locals of a running Hashtable.put
    get_frame,   \* the locals of a running Hashtable.get
    tlist,       \* generate_text: the words generated so far
    draws,       \* how many times randint has been called
    printed,     \* the error message printed by main, None if none
    recorded,    \* history: key -> the values put and appended for it, in order
    dup,         \* history: put was called with a key the table already held
    hpc,               \* huffman.py: the position of the running program
    tree,              \* history: the tree whose traversals the input file holds
    preorder,          \* huffman main: the first list read_input_file returned
    inorder,           \* huffman main: the second list read_input_file returned
    binary_string,     \* huffman main: the string read_input_file returned
    root,              \* huffman main: what build_tree returned
    post_order_concat, \* huffman main: the first line printed
    node,              \* decode_huffman: the node the walk stands on
    pos,               \* decode_huffman: position of the for loop in binary_string
    decoded_sequence   \* decode_huffman: the string decoded so far

\* the variables of writer_bot.py
wvars == <<pc, table_size, prefix_size, word_count, file, contents, table, idx,
           prefix, put_frame, get_frame, tlist, draws, printed, recorded, dup>>

\* the variables of huffman.py
hvars == <<hpc, tree, preorder, inorder, binary_string, root,
           post_order_concat, node, pos, decoded_sequence>>

vars == <<wvars, hvars>>

\* ------------------------------------------------------------------ bounds

MaxSize == 3
MaxLen == 4
MaxN == 2
MaxCount == 5
MaxAppends == 1

\* huffman.py is not running
HuffmanIdle ==
    /\ hpc = "none" /\ tree = <<>> /\ preorder = <<>> /\ inorder = <<>>
    /\ binary_string = <<>> /\ root = <<>> /\ post_order_concat = <<>>
    /\ node = <<>> /\ pos = 0 /\ decoded_sequence = <<>>

\* ---------------------------------------------------------------- strings

None == <<>>

\* NONWORD = '@'
NONWORD == <<64>>

\* the words a corpus is made of: "x", "y" and the sentinel word itself
Words == {<<120>>, <<121>>, NONWORD}

\* join with a fault: only the last word of the prefix makes the key
joinLast(words) == IF words = <<>> THEN <<>> ELSE words[Len(words)]

\* ' '.join(words)
RECURSIVE join(_)
join(words) ==
    IF Len(words) = 0 THEN <<>>
    ELSE IF Len(words) = 1 THEN words[1]
    ELSE words[1] \o <<32>> \o join(Tail(words))

\* [NONWORD] * n  (a negative n gives the empty list)
Sentinels(n) == [j \in 1..n |-> NONWORD]

\* prefix.pop(0); prefix.append(word).  pop(0) of an empty list raises.
Slide(pre, word) == Tail(pre) \o <<word>>

\* Python's a % b for b # 0: the result has the sign of b
PyMod(a, b) ==
    IF b > 0 THEN a % b
    ELSE LET r == a % (0 - b) IN IF r = 0 THEN 0 ELSE r + b

\* ------------------------------------------------------------ Hashtable

\* Hashtable.__init__: [None] * size is the empty list for size <= 0
NoTable == [made |-> FALSE, _pairs |-> <<>>, _size |-> 0]
Hashtable(size) ==
    [made |-> TRUE, _pairs |-> [j \in 0..(size - 1) |-> None], _size |-> size]

\* the for loop of _hash: p = 31 * p + ord(c)
RECURSIVE Horner(_, _)
Horner(key, p) ==
    IF Len(key) = 0 THEN p ELSE Horner(Tail(key), 31 * p + Head(key))

\* Hashtable._hash, for a table whose _size is not 0
_hash(t, key) == PyMod(Horner(key, 0), t._size)

\* the exception every _hash / _pairs[i] of a table with _size <= 0 raises:
\* p % 0 divides by zero, and the empty list has no index
Raises(t) ==
    IF t._size = 0 THEN "ZeroDivisionError"
    ELSE IF t._size < 0 THEN "IndexError"
    ELSE "no"

\* get with a fault: it walks upward, (i + 1) % size, while put probes downward
GetIterUp(t, key, i, start) ==
    LET slot == t._pairs[i]
        nxt == PyMod(i + 1, t._size)
    IN  IF slot = None THEN [done |-> TRUE, i |-> i, result |-> None]
        ELSE IF slot[1] = key THEN [done |-> TRUE, i |-> i, result |-> <<slot[2]>>]
        ELSE IF nxt = start THEN [done |-> TRUE, i |-> nxt, result |-> None]
        ELSE [done |-> FALSE, i |-> nxt, result |-> None]

\* get with a fault: no `if i == start: break`
GetIterNoBreak(t, key, i, start) ==
    LET slot == t._pairs[i]
    IN  IF slot = None THEN [done |-> TRUE, i |-> i, result |-> None]
        ELSE IF slot[1] = key THEN [done |-> TRUE, i |-> i, result |-> <<slot[2]>>]
        ELSE [done |-> FALSE, i |-> PyMod(i - 1, t._size), result |-> None]

\* get with a fault: the slot's key is not compared with the key asked for
GetIterAnyKey(t, key, i, start) ==
    LET slot == t._pairs[i]
    IN  IF slot = None THEN [done |-> TRUE, i |-> i, result |-> None]
        ELSE [done |-> TRUE, i |-> i, result |-> <<slot[2]>>]

\* One pass of get's while loop at index i: the slot is inspected, and the
\* call returns (done) or moves on to (i - 1) % size.
GetIter(t, key, i, start) ==
    LET slot == t._pairs[i]
        nxt == PyMod(i - 1, t._size)
    IN  IF slot = None THEN [done |-> TRUE, i |-> i, result |-> None]
        ELSE IF slot[1] = key THEN [done |-> TRUE, i |-> i, result |-> <<slot[2]>>]
        ELSE IF nxt = start THEN [done |-> TRUE, i |-> nxt, result |-> None]
        ELSE [done |-> FALSE, i |-> nxt, result |-> None]

\* Hashtable.get as a whole (the table's _size is positive): the boxed value
\* list, or None
RECURSIVE GetLoop(_, _, _, _)
GetLoop(t, key, i, start) ==
    LET r == GetIter(t, key, i, start)
    IN  IF r.done THEN r.result ELSE GetLoop(t, key, r.i, start)

get(t, key) == GetLoop(t, key, _hash(t, key), _hash(t, key))

\* Hashtable.__contains__
contains(t, key) == get(t, key) # None

\* the index of the slot get returns for a key the table contains
RECURSIVE SlotLoop(_, _, _, _)
SlotLoop(t, key, i, start) ==
    LET r == GetIter(t, key, i, start)
    IN  IF r.done THEN r.i ELSE SlotLoop(t, key, r.i, start)

\* append with a fault: insert(0, word) for append(word)
PrependAt(t, j, word) ==
    [t EXCEPT !._pairs[j] = <<t._pairs[j][1], <<word>> \o t._pairs[j][2]>>]

\* list.append on the value list of slot j
AppendAt(t, j, word) ==
    [t EXCEPT !._pairs[j] = <<t._pairs[j][1], Append(t._pairs[j][2], word)>>]

\* table.get(key).append(word): the list get returns is the slot's own list
append(t, key, word) ==
    AppendAt(t, SlotLoop(t, key, _hash(t, key), _hash(t, key)), word)

\* put's  if i < 0: i = len(self._pairs) - 1
Wrap(t, i) == IF i < 0 THEN Cardinality(DOMAIN t._pairs) - 1 ELSE i

\* Store with a fault: the pair is written to the key's home slot, not to
\* the slot the walk stopped at
StoreHome(t, i, key, value) ==
    [t EXCEPT !._pairs[_hash(t, key)] = <<key, <<value>>>>]

\* Store with a fault: the new pair's list is left empty, [key, []]
StoreEmpty(t, i, key, value) == [t EXCEPT !._pairs[i] = <<key, <<>>>>]

\* self._pairs[i] = [key, [value]]
Store(t, i, key, value) == [t EXCEPT !._pairs[i] = <<key, <<value>>>>]

\* ------------------------------------------------- the running calls

NoPut == [key |-> <<>>, value |-> <<>>, i |-> 0, ret |-> "none"]
NoGet == [key |-> <<>>, i |-> 0, start |-> 0, probes |-> 0, result |-> None,
          then |-> "none", value |-> <<>>]

\* The caller's next statements once put has returned.  In
\* build_prefix_suffix_table: prefix.pop(0); prefix.append(word), and the for
\* loop moves on.
PutReturns(ret, word) ==
    /\ pc' = ret
    /\ put_frame' = NoPut
    /\ IF ret = "build_loop"
         THEN prefix' = Slide(prefix, word) /\ idx' = idx + 1
         ELSE UNCHANGED <<prefix, idx>>

\* Hashtable.put up to its loop: i = self._hash(key); a free home slot is
\* written at once, an occupied one starts the probe loop.
PutCall(key, value, ret) ==
    LET i == _hash(table, key)
    IN  IF table._pairs[i] # None
        THEN /\ pc' = "put_loop"
             /\ put_frame' = [key |-> key, value |-> value, i |-> i, ret |-> ret]
             /\ UNCHANGED <<table, prefix, idx>>
        ELSE /\ table' = Store(table, i, key, value)
             /\ PutReturns(ret, value)

\* the decrement with a fault: `i -= 2` for `i -= 1`
PutDecTwo ==
    /\ pc = "put_loop"
    /\ put_frame' = [put_frame EXCEPT !.i = @ - 2]
    /\ pc' = "put_test"
    /\ UNCHANGED hvars
    /\ UNCHANGED <<table_size, prefix_size, word_count, file, contents, table,
                   idx, prefix, get_frame, tlist, draws, printed, recorded, dup>>

\* put's `while True`, its first statement: i -= 1
PutDec ==
    /\ pc = "put_loop"
    /\ put_frame' = [put_frame EXCEPT !.i = @ - 1]
    /\ pc' = "put_test"
    /\ UNCHANGED hvars
    /\ UNCHANGED <<table_size, prefix_size, word_count, file, contents, table,
                   idx, prefix, get_frame, tlist, draws, printed, recorded, dup>>

\* The rest of the loop's body: i wraps around below 0, and the pair is
\* written when the slot at i is free.  Nothing else ends the loop.
PutTest ==
    /\ pc = "put_test"
    /\ LET i == Wrap(table, put_frame.i)
       IN  IF table._pairs[i] = None
           THEN /\ table' = Store(table, i, put_frame.key, put_frame.value)
                /\ PutReturns(put_frame.ret, put_frame.value)
           ELSE /\ put_frame' = [put_frame EXCEPT !.i = i]
                /\ pc' = "put_loop"
                /\ UNCHANGED <<table, prefix, idx>>
    /\ UNCHANGED hvars
    /\ UNCHANGED <<table_size, prefix_size, word_count, file, contents,
                   get_frame, tlist, draws, printed, recorded, dup>>

\* ------------------------------------------- the Hashtable on its own

\* the keys and values its methods are called with: "x", "y", "x y" and
\* "y x" (the last two and "x" share the home slot of a table of size 3, the
\* last two and "y" that of a table of size 2 or 4)
Keys == {<<120>>, <<121>>, join(<<<<120>>, <<121>>>>), join(<<<<121>>, <<120>>>>)}
Vals == {<<120>>, <<121>>}

\* the number of values appended so far
RECURSIVE Appended(_)
Appended(keys) ==
    IF keys = {} THEN 0
    ELSE LET k == CHOOSE k \in keys : TRUE
             n == IF recorded[k] = <<>> THEN 0 ELSE Len(recorded[k]) - 1
         IN  n + Appended(keys \ {k})

TableInit ==
    /\ HuffmanIdle
    /\ pc = "idle"
    /\ table_size \in 1..MaxSize
    /\ table = Hashtable(table_size)
    /\ prefix_size = 1
    /\ word_count = 1
    /\ file = <<>>
    /\ contents = None
    /\ idx = 1
    /\ prefix = <<>>
    /\ put_frame = NoPut
    /\ get_frame = NoGet
    /\ tlist = <<>>
    /\ draws = 0
    /\ printed = None
    /\ recorded = [k \in Keys |-> <<>>]
    /\ dup = FALSE

\* table.put(key, value); put does not look for the key, and a run calls it
\* at most once with a key the table already holds
TablePut ==
    /\ pc = "idle"
    /\ \E key \in Keys, value \in Vals :
          /\ recorded[key] = <<>> \/ ~dup
          /\ PutCall(key, value, "idle")
          /\ recorded' = IF recorded[key] = <<>>
                          THEN [recorded EXCEPT ![key] = <<value>>]
                          ELSE recorded
          /\ dup' = (dup \/ recorded[key] # <<>>)
    /\ UNCHANGED hvars
    /\ UNCHANGED <<table_size, prefix_size, word_count, file, contents,
                   get_frame, tlist, draws, printed>>

\* table.get(key), alone or as table.get(key).append(value) for a key that
\* was put; up to get's loop: i = self._hash(key); start = i
GetCall ==
    /\ pc = "idle"
    /\ \E key \in Keys :
          \/ get_frame' = [NoGet EXCEPT !.key = key, !.i = _hash(table, key),
                                        !.start = _hash(table, key),
                                        !.then = "return"]
          \/ \E value \in Vals :
                /\ recorded[key] # <<>>
                /\ Appended(Keys) < MaxAppends
                /\ get_frame' = [NoGet EXCEPT !.key = key, !.i = _hash(table, key),
                                              !.start = _hash(table, key),
                                              !.then = "append", !.value = value]
    /\ pc' = "get_loop"
    /\ UNCHANGED hvars
    /\ UNCHANGED <<table_size, prefix_size, word_count, file, contents, table,
                   idx, prefix, put_frame, tlist, draws, printed, recorded, dup>>

\* One pass of get's while loop; probes counts the slots inspected.
GetStep ==
    /\ pc = "get_loop"
    /\ LET r == GetIter(table, get_frame.key, get_frame.i, get_frame.start)
       IN  /\ get_frame' = [get_frame EXCEPT !.i = r.i, !.result = r.result,
                                             !.probes = @ + 1]
           /\ pc' = IF r.done THEN "get_done" ELSE "get_loop"
    /\ UNCHANGED hvars
    /\ UNCHANGED <<table_size, prefix_size, word_count, file, contents, table,
                   idx, prefix, put_frame, tlist, draws, printed, recorded, dup>>

\* get has returned get_frame.result: the caller has it, or appends to it
\* (None has no append: AttributeError)
GetReturn ==
    /\ pc = "get_done"
    /\ get_frame' = NoGet
    /\ IF get_frame.then = "append"
         THEN IF get_frame.result = None
              THEN /\ pc' = "AttributeError"
                   /\ UNCHANGED <<table, recorded>>
              ELSE /\ pc' = "idle"
                   /\ table' = AppendAt(table, get_frame.i, get_frame.value)
                   /\ recorded' = [recorded EXCEPT
                                     ![get_frame.key] = Append(@, get_frame.value)]
         ELSE /\ pc' = "idle"
              /\ UNCHANGED <<table, recorded>>
    /\ UNCHANGED hvars
    /\ UNCHANGED <<table_size, prefix_size, word_count, file, contents,
                   idx, prefix, put_frame, tlist, draws, printed, dup>>

TableNext ==
    \/ TablePut
    \/ PutDec
    \/ PutTest
    \/ GetCall
    \/ GetStep
    \/ GetReturn

TableSpec == TableInit /\ [][TableNext]_vars

\* put's loop is the program's only thread: while it can step, it steps
FairTableSpec == TableSpec /\ WF_vars(PutDec) /\ WF_vars(PutTest)

\* ------------------------------------------------------------- main

\* every list of at most n words
RECURSIVE SeqsUpTo(_)
SeqsUpTo(n) ==
    IF n = 0 THEN {<<>>}
    ELSE LET shorter == SeqsUpTo(n - 1)
         IN  shorter \cup {Append(c, w) : c \in {d \in shorter : Len(d) = n - 1},
                                          w \in Words}

\* main's four input() lines have been read
Init ==
    /\ HuffmanIdle
    /\ pc = "start"
    /\ table_size \in (0 - 1)..MaxSize
    /\ prefix_size \in 0..MaxN
    /\ word_count \in 0..MaxCount
    /\ file \in SeqsUpTo(MaxLen)
    /\ contents = None
    /\ table = NoTable
    /\ idx = 1
    /\ prefix = <<>>
    /\ put_frame = NoPut
    /\ get_frame = NoGet
    /\ tlist = <<>>
    /\ draws = 0
    /\ printed = None
    /\ recorded = [k \in Keys |-> <<>>]
    /\ dup = FALSE

\* main's checks with a fault: `< 0` for `< 1`
ConfigErrorBelowZero(n, count) ==
    IF n < 0 THEN <<"ERROR: specified prefix size is less than one">>
    ELSE IF count < 0
    THEN <<"ERROR: specified size of the generated text is less than one">>
    ELSE None

\* main's two checks: the message of the first that fails, None if none does
ConfigError(n, count) ==
    IF n < 1 THEN <<"ERROR: specified prefix size is less than one">>
    ELSE IF count < 1
    THEN <<"ERROR: specified size of the generated text is less than one">>
    ELSE None

\* main after its input() lines: print the error and sys.exit(0), or go on
\* to read the file
Validate ==
    /\ pc = "start"
    /\ printed' = ConfigError(prefix_size, word_count)
    /\ pc' = IF ConfigError(prefix_size, word_count) # None THEN "exit" ELSE "read"
    /\ UNCHANGED hvars
    /\ UNCHANGED <<table_size, prefix_size, word_count, file, contents, table,
                   idx, prefix, put_frame, get_frame, tlist, draws, recorded, dup>>

\* contents = read_file(filename)
ReadFile ==
    /\ pc = "read"
    /\ contents' = <<file>>
    /\ pc' = "build"
    /\ UNCHANGED hvars
    /\ UNCHANGED <<table_size, prefix_size, word_count, file, table, idx,
                   prefix, put_frame, get_frame, tlist, draws, printed, recorded,
                   dup>>

\* build_prefix_suffix_table up to its loop:
\* table = Hashtable(table_size); prefix = [NONWORD] * n
BuildCall ==
    /\ pc = "build"
    /\ table' = Hashtable(table_size)
    /\ prefix' = Sentinels(prefix_size)
    /\ idx' = 1
    /\ pc' = "build_loop"
    /\ UNCHANGED hvars
    /\ UNCHANGED <<table_size, prefix_size, word_count, file, contents,
                   put_frame, get_frame, tlist, draws, printed, recorded, dup>>

\* One pass of the for loop of build_prefix_suffix_table, or its end
\* (return table, and main calls generate_text).  `prefix_str in table`
\* raises on a table of size <= 0; put may enter its probe loop, and the pass
\* ends when put returns.
BuildStep ==
    /\ pc = "build_loop"
    /\ IF idx > Len(contents[1])
         THEN /\ pc' = "generate"
              /\ UNCHANGED <<table, idx, prefix, put_frame>>
         ELSE LET word == contents[1][idx]
                  prefix_str == join(prefix)
              IN  IF Raises(table) # "no"
                  THEN /\ pc' = Raises(table)
                       /\ UNCHANGED <<table, idx, prefix, put_frame>>
                  ELSE IF contains(table, prefix_str)
                  THEN /\ table' = append(table, prefix_str, word)
                       /\ prefix' = Slide(prefix, word)
                       /\ idx' = idx + 1
                       /\ UNCHANGED <<pc, put_frame>>
                  ELSE PutCall(prefix_str, word, "build_loop")
    /\ UNCHANGED hvars
    /\ UNCHANGED <<table_size, prefix_size, word_count, file, contents,
                   get_frame, tlist, draws, printed, recorded, dup>>

\* generate_text up to its loop: tlist = []; prefix = [NONWORD] * n
GenCall ==
    /\ pc = "generate"
    /\ tlist' = <<>>
    /\ prefix' = Sentinels(prefix_size)
    /\ pc' = "gen_loop"
    /\ UNCHANGED hvars
    /\ UNCHANGED <<table_size, prefix_size, word_count, file, contents, table,
                   idx, put_frame, get_frame, draws, printed, recorded, dup>>

\* randint(0, n - 1) may return any index of the list
Picks(suffixes) == 0..(Len(suffixes) - 1)

\* the test with a fault: `>= 1` for `> 1`
SeveralOrOne(suffixes) == Len(suffixes) >= 1

\* generate_text's  if len(suffixes) > 1:  the random source is asked
Several(suffixes) == Len(suffixes) > 1

\* the loop's test with a fault: `<=` for `<`
GenContinueLe(t, pre, tl, count) ==
    contains(t, join(pre)) /\ Len(tl) <= count

\* the loop's test with a fault: `or` for `and`
GenContinueOr(t, pre, tl, count) ==
    contains(t, join(pre)) \/ Len(tl) < count

\* the test of generate_text's while loop:
\* prefix_str in table and len(tlist) < word_count
GenContinue(t, pre, tl, count) ==
    contains(t, join(pre)) /\ Len(tl) < count

\* the list of slot j without its element at index i (list.pop(i))
PopAt(t, j, i) ==
    LET vals == t._pairs[j][2]
    IN  [t EXCEPT !._pairs[j] =
            <<t._pairs[j][1],
              SubSeq(vals, 1, i) \o SubSeq(vals, i + 2, Len(vals))>>]

\* the loop's pass with a fault: the drawn word is taken out of the table's
\* list, suffixes.pop(i) for suffixes[i]
GenStepPop ==
    /\ pc = "gen_loop"
    /\ IF Raises(table) # "no"
         THEN /\ pc' = Raises(table)
              /\ UNCHANGED <<tlist, prefix, draws, table>>
         ELSE IF ~GenContinue(table, prefix, tlist, word_count)
         THEN /\ pc' = "done"
              /\ UNCHANGED <<tlist, prefix, draws, table>>
         ELSE IF get(table, join(prefix)) = None
         THEN /\ pc' = "TypeError"
              /\ UNCHANGED <<tlist, prefix, draws, table>>
         ELSE LET suffixes == get(table, join(prefix))[1]
                  h == _hash(table, join(prefix))
              IN  /\ IF Several(suffixes)
                       THEN /\ \E i \in Picks(suffixes) :
                                  /\ tlist' = Append(tlist, suffixes[i + 1])
                                  /\ prefix' = Slide(prefix, suffixes[i + 1])
                                  /\ table' = PopAt(table,
                                        SlotLoop(table, join(prefix), h, h), i)
                            /\ draws' = draws + 1
                       ELSE /\ tlist' = Append(tlist, suffixes[1])
                            /\ prefix' = Slide(prefix, suffixes[1])
                            /\ UNCHANGED <<draws, table>>
                  /\ UNCHANGED pc
    /\ UNCHANGED hvars
    /\ UNCHANGED <<table_size, prefix_size, word_count, file, contents,
                   idx, put_frame, get_frame, printed, recorded, dup>>

\* One pass of generate_text's while loop, or its end (return tlist, which
\* main prints).  The loop's test evaluates `prefix_str in table` first,
\* which raises on a table of size <= 0; len(None) raises TypeError.
GenStep ==
    /\ pc = "gen_loop"
    /\ IF Raises(table) # "no"
         THEN /\ pc' = Raises(table)
              /\ UNCHANGED <<tlist, prefix, draws>>
         ELSE IF ~GenContinue(table, prefix, tlist, word_count)
         THEN /\ pc' = "done"
              /\ UNCHANGED <<tlist, prefix, draws>>
         ELSE IF get(table, join(prefix)) = None
         THEN /\ pc' = "TypeError"
              /\ UNCHANGED <<tlist, prefix, draws>>
         ELSE LET suffixes == get(table, join(prefix))[1]
              IN  /\ IF Several(suffixes)
                       THEN /\ \E i \in Picks(suffixes) :
                                  /\ tlist' = Append(tlist, suffixes[i + 1])
                                  /\ prefix' = Slide(prefix, suffixes[i + 1])
                            /\ draws' = draws + 1
                       ELSE /\ tlist' = Append(tlist, suffixes[1])
                            /\ prefix' = Slide(prefix, suffixes[1])
                            /\ UNCHANGED draws
                  /\ UNCHANGED pc
    /\ UNCHANGED hvars
    /\ UNCHANGED <<table_size, prefix_size, word_count, file, contents, table,
                   idx, put_frame, get_frame, printed, recorded, dup>>

Next ==
    \/ Validate
    \/ ReadFile
    \/ BuildCall
    \/ BuildStep
    \/ PutDec
    \/ PutTest
    \/ GenCall
    \/ GenStep

Spec == Init /\ [][Next]_vars

\* --------------------------------------------- what a corpus records

\* the keys of the occupied slots
KeysOf(t) == {t._pairs[j][1] : j \in {k \in DOMAIN t._pairs : t._pairs[k] # None}}

\* the n words before word i of the corpus, sentinels before its start
Window(corpus, n, i) == SubSeq(Sentinels(n) \o corpus, i, i + n - 1)

\* the windows that precede some word of the corpus
Windows(corpus, n) == {Window(corpus, n, i) : i \in 1..Len(corpus)}

\* the words that follow window w among the first m words, in corpus order
RECURSIVE Followers(_, _, _, _)
Followers(corpus, n, w, m) ==
    IF m = 0 THEN <<>>
    ELSE IF Window(corpus, n, m) = w
    THEN Append(Followers(corpus, n, w, m - 1), corpus[m])
    ELSE Followers(corpus, n, w, m - 1)

\* the window after the last word of the corpus
FinalWindow(corpus, n) == Window(corpus, n, Len(corpus) + 1)

\* ------------------------------------------- claims on the Hashtable

\* every slot of the table is occupied
Full(t) == \A j \in DOMAIN t._pairs : t._pairs[j] # None

\* the keys the table holds all have the same home slot
OneHome(t) ==
    \A j, k \in DOMAIN t._pairs :
        (t._pairs[j] # None /\ t._pairs[k] # None)
            => _hash(t, t._pairs[j][1]) = _hash(t, t._pairs[k][1])

\* C1 (insert/lookup round trip): when put was only called with pairwise
\* distinct keys (at most as many as the table has slots, appends in
\* between), a get of a key that was put returns exactly the values recorded
\* for that key: its first value, then the appended ones in order.
C1_RoundTrip ==
    (pc = "get_done" /\ ~dup /\ recorded[get_frame.key] # <<>>
        /\ get_frame.then = "return")
        => get_frame.result = <<recorded[get_frame.key]>>

\* C1's case: a full table of at least two slots whose keys all share one
\* home slot, and a get that walked all of it to return a put and an
\* appended value.
C1_Witness ==
    /\ pc = "get_done" /\ ~dup /\ get_frame.then = "return"
    /\ table._size >= 2 /\ Full(table) /\ OneHome(table)
    /\ get_frame.probes = table._size
    /\ get_frame.result = <<recorded[get_frame.key]>>
    /\ Len(recorded[get_frame.key]) = 2

\* C2 (capacity exhaustion): a put that entered its probe loop comes back
\* out of it, with a full table too.
C2_PutTerminates == (pc = "put_loop") ~> (pc = "idle")

\* C3 (lookup termination): get inspects at most _size slots; once it has
\* inspected _size of them it has returned.
C3_GetBound ==
    /\ get_frame.probes <= table._size
    /\ pc = "get_loop" => get_frame.probes < table._size

\* C3's case: a get of an absent key on a full table of at least two slots,
\* back at its start after inspecting every slot.
C3_Witness ==
    /\ pc = "get_done" /\ Full(table) /\ table._size >= 2
    /\ recorded[get_frame.key] = <<>>
    /\ get_frame.result = None
    /\ get_frame.probes = table._size
    /\ get_frame.i = get_frame.start

\* ------------------------------------------------ claims on the program

\* build_prefix_suffix_table has returned its table to main
Built == pc \in {"generate", "gen_loop", "done"}

\* no two slots hold the same key
NoDupKeys(t) ==
    \A j, k \in DOMAIN t._pairs :
        (j # k /\ t._pairs[j] # None /\ t._pairs[k] # None)
            => t._pairs[j][1] # t._pairs[k][1]

\* C4 (ingestion correctness): once the build has returned, with at least as
\* many slots as the corpus has distinct windows, the keys of the store are
\* exactly the joined windows that precede a corpus word, and each of them
\* maps to the words that followed its occurrences, in corpus order with
\* duplicates kept.
C4_Ingestion ==
    (Built /\ table_size >= Cardinality(Windows(file, prefix_size)))
        => /\ KeysOf(table) = {join(w) : w \in Windows(file, prefix_size)}
           /\ \A w \in Windows(file, prefix_size) :
                 get(table, join(w)) =
                     <<Followers(file, prefix_size, w, Len(file))>>

\* C4's case: the build has returned a full table of at least three slots
\* in which some window recorded two different followers.
C4_Witness ==
    /\ pc = "generate" /\ Full(table) /\ table._size >= 3
    /\ table_size = Cardinality(Windows(file, prefix_size))
    /\ \E w \in Windows(file, prefix_size) :
          /\ Len(Followers(file, prefix_size, w, Len(file))) = 2
          /\ Followers(file, prefix_size, w, Len(file))[1]
                # Followers(file, prefix_size, w, Len(file))[2]
          /\ get(table, join(w)) = <<Followers(file, prefix_size, w, Len(file))>>

\* the run of the example: corpus x y x y, n = 1, count = 5, enough slots
XYXY ==
    /\ file = <<<<120>>, <<121>>, <<120>>, <<121>>>>
    /\ prefix_size = 1
    /\ word_count = 5
    /\ table_size >= 3

\* C5 as the spec states it: in the model of x y x y every prefix has exactly
\* one recorded successor, and the five-word generation returns y x y x.
C5_AsStated ==
    (XYXY /\ pc = "done")
        => /\ \A j \in DOMAIN table._pairs :
                 table._pairs[j] # None => Len(table._pairs[j][2]) = 1
           /\ tlist = <<<<121>>, <<120>>, <<121>>, <<120>>>>

\* C5 (amended): in the model of x y x y the recorded successors of a prefix
\* are all the same word (prefix x has two, both y), and the generation
\* returns x y x y x, five words, whatever randint returns.
C5_Deterministic ==
    (XYXY /\ pc = "done")
        => /\ \A j \in DOMAIN table._pairs :
                 table._pairs[j] # None
                     => \A a \in 1..Len(table._pairs[j][2]) :
                            table._pairs[j][2][a] = table._pairs[j][2][1]
           /\ get(table, <<120>>) = <<(<<<<121>>, <<121>>>>)>>
           /\ tlist = <<<<120>>, <<121>>, <<120>>, <<121>>, <<120>>>>

\* C5's case: the example's generation has returned after drawing twice.
C5_Witness == XYXY /\ pc = "done" /\ Len(tlist) = 5 /\ draws = 2

\* the corpus' final window was never recorded as a key
DeadEnd == FinalWindow(file, prefix_size) \notin Windows(file, prefix_size)

\* C6 as the spec states it: when the corpus' final window was never
\* recorded as a key, the generation returns fewer than count words.
C6_AsStated == (DeadEnd /\ pc = "done") => Len(tlist) < word_count

\* C6 (amended): a generation whose window is not a key of the model (the
\* final window of such a corpus is one) produces no further word: its next
\* step ends it, and with fewer than count words produced by then the result
\* is shorter than count.
C6_DeadEndStops ==
    [][(pc = "gen_loop" /\ join(prefix) \notin KeysOf(table))
          => /\ tlist' = tlist
             /\ pc' \in {"done", "ZeroDivisionError", "IndexError"}]_vars

\* C6's case: the generation of a corpus with such a final window has
\* walked to that window and returned short of count.
C6_Witness ==
    /\ pc = "done" /\ DeadEnd /\ Len(file) >= 2
    /\ prefix = FinalWindow(file, prefix_size)
    /\ Len(tlist) >= 2 /\ Len(tlist) < word_count

\* the last n of the sentinels followed by the words generated so far
LastWindow(n, words) ==
    SubSeq(Sentinels(n) \o words, Len(words) + 1, Len(words) + n)

\* C7 (generation bound): the generation never holds more than count words,
\* every pass of its loop adds one, and a result shorter than count is one
\* whose last window (all sentinels if nothing was generated) is no key of
\* the model.
C7_GenBound ==
    /\ Len(tlist) <= word_count
    /\ pc \in {"gen_loop", "done"} => prefix = LastWindow(prefix_size, tlist)
    /\ (pc = "done" /\ Len(tlist) < word_count)
          => join(LastWindow(prefix_size, tlist)) \notin KeysOf(table)

\* C7's case: a generation that made a random pick has returned at least two
\* words, fewer than count.
C7_Witness ==
    /\ pc = "done" /\ draws >= 1
    /\ Len(tlist) >= 2 /\ Len(tlist) < word_count
    /\ join(prefix) \notin KeysOf(table)

\* C8 (rejection of n and count): with n < 1 or count < 1 the program goes
\* from its start to its exit with the error printed and nothing else done:
\* no file read, no store made, no word ingested or generated.
C8_Rejected ==
    (prefix_size < 1 \/ word_count < 1)
        => /\ pc \in {"start", "exit"}
           /\ pc = "exit" => printed # None
           /\ contents = None /\ table = NoTable /\ idx = 1 /\ tlist = <<>>

\* C8's case: the program has exited on count = 0 with a valid n.
C8_Witness ==
    /\ pc = "exit" /\ prefix_size >= 1 /\ word_count < 1
    /\ printed = <<"ERROR: specified size of the generated text is less than one">>
    /\ table = NoTable

\* C9 (rejection of the capacity): with a capacity <= 0 the program goes
\* from its start to its exit with an error printed: no file read, no store
\* made.
C9_CapacityRejected ==
    table_size <= 0
        => /\ pc \in {"start", "exit"}
           /\ pc = "exit" => printed # None
           /\ contents = None /\ table = NoTable

\* C10 (key uniqueness): in every state of the build (and after), no two
\* slots hold the same key, and between two passes of its loop the occupied
\* slots are as many as the distinct windows ingested so far: a repeated
\* window takes no second slot.
C10_KeyUnique ==
    /\ NoDupKeys(table)
    /\ pc = "build_loop" =>
          Cardinality({j \in DOMAIN table._pairs : table._pairs[j] # None})
              = Cardinality({Window(file, prefix_size, i) : i \in 1..(idx - 1)})

\* C10's case: the build has ingested a repeated window whose key lies away
\* from its home slot.
C10_Witness ==
    /\ pc = "build_loop" /\ idx > Len(file)
    /\ \E j \in DOMAIN table._pairs :
          /\ table._pairs[j] # None
          /\ Len(table._pairs[j][2]) >= 2
          /\ _hash(table, table._pairs[j][1]) # j

\* C11 (non-empty values): every occupied slot holds a list of at least one
\* value, so that a key the table contains has a candidate at index 0 for
\* generate_text to read, and `in` is true exactly of the keys with a list.
C11_NonEmpty ==
    /\ \A j \in DOMAIN table._pairs :
          table._pairs[j] # None => Len(table._pairs[j][2]) >= 1
    /\ (pc = "gen_loop" /\ Raises(table) = "no")
          => /\ contains(table, join(prefix)) <=> join(prefix) \in KeysOf(table)
             /\ contains(table, join(prefix))
                   => Len(get(table, join(prefix))[1]) >= 1

\* C11's case: the generation has twice read index 0 of a one-word list, and
\* stands at a key of a full table.
C11_Witness ==
    /\ pc = "gen_loop" /\ draws = 0 /\ Len(tlist) >= 2
    /\ Full(table) /\ table._size >= 2
    /\ contains(table, join(prefix))
    /\ Len(get(table, join(prefix))[1]) = 1

\* C12 (read-only generation): generate_text leaves the table as build
\* returned it -- no step from its call to its return changes a slot's key
\* or its list of values, contents and order -- and it starts from the
\* all-sentinel prefix, so a second call would start from the same model
\* and the same prefix.
C12_ReadOnly ==
    [][ /\ pc \in {"generate", "gen_loop"} => table' = table
        /\ pc = "generate" => prefix' = Sentinels(prefix_size) ]_vars

\* C12's case: a generation has returned at least three words, one of them
\* drawn from a list of several, when the build had moved the prefix on.
C12_Witness ==
    /\ pc = "done" /\ Len(tlist) >= 3 /\ draws >= 1
    /\ Len(file) >= 3
    /\ \E j \in DOMAIN table._pairs :
          table._pairs[j] # None /\ Len(table._pairs[j][2]) >= 2

\* the slot d steps below slot h, going round from slot 0 to the last slot
Down(t, h, d) == PyMod(h - d, t._size)

\* the number of steps from slot h down to the first empty slot
FreeDist(t, h) ==
    CHOOSE d \in 0..(t._size - 1) :
        /\ t._pairs[Down(t, h, d)] = None
        /\ \A e \in 0..(d - 1) : t._pairs[Down(t, h, e)] # None

\* the slots in which two tables of the same size differ
Changed(t, u) == {j \in DOMAIN t._pairs : t._pairs[j] # u._pairs[j]}

\* C13 (insert placement and frame): on a table with an empty slot, put
\* ends, and it writes the pair (key, [value]) into exactly one slot: the
\* first empty slot on the walk from the key's home slot downward, round
\* from slot 0 to the last slot (the home slot itself when it is empty);
\* every other slot keeps its content.  The end is stated by a measure:
\* each decrement of put's loop brings i one step nearer to that slot, and
\* the test that follows returns exactly when i has reached it.
C13_Placement ==
    [][ /\ (table' # table /\ get_frame.then # "append")
          => \E j \in DOMAIN table._pairs :
               /\ Changed(table, table') = {j}
               /\ table._pairs[j] = None
               /\ Len(table'._pairs[j][2]) = 1
               /\ j = Down(table, _hash(table, table'._pairs[j][1]),
                           FreeDist(table, _hash(table, table'._pairs[j][1])))
        /\ (pc = "put_loop" /\ ~Full(table))
          => /\ pc' = "put_test"
             /\ FreeDist(table, put_frame.i) >= 1
             /\ FreeDist(table, Wrap(table, put_frame'.i))
                  = FreeDist(table, put_frame.i) - 1
        /\ (pc = "put_test" /\ ~Full(table))
          => IF FreeDist(table, Wrap(table, put_frame.i)) = 0
               THEN pc' = "idle" /\ table' # table
               ELSE /\ pc' = "put_loop" /\ table' = table
                    /\ put_frame'.i = Wrap(table, put_frame.i) ]_vars

\* C13's case: a put has found its home slot occupied, has gone round from
\* slot 0 to the last slot and has written its pair there; another slot is
\* still empty.
C13_Witness ==
    /\ pc = "idle" /\ ~Full(table) /\ table._size >= 3
    /\ \E j \in DOMAIN table._pairs :
          /\ table._pairs[j] # None
          /\ j > _hash(table, table._pairs[j][1])

\* C14 (lookup miss): whatever was put and appended before, a get of a key
\* that was never put returns None, without an error, and `in` is false of
\* that key -- on a full table and on a table whose slot at the key's home
\* holds another key as well.
C14_Miss ==
    /\ (pc = "get_done" /\ recorded[get_frame.key] = <<>>)
          => get_frame.result = None
    /\ pc = "idle"
          => \A k \in Keys :
                recorded[k] = <<>>
                    => get(table, k) = None /\ ~contains(table, k)

\* C14's case: after an append, a get of a key never put has found another
\* key in its home slot, has walked on and has returned None at an empty
\* slot.
C14_Witness ==
    /\ pc = "get_done" /\ get_frame.then = "return"
    /\ recorded[get_frame.key] = <<>>
    /\ table._pairs[get_frame.start] # None
    /\ get_frame.probes >= 3 /\ ~Full(table)
    /\ Appended(Keys) >= 1

\* the list the table holds for key k (the key occupies one slot)
ValuesOf(t, k) ==
    t._pairs[CHOOSE j \in DOMAIN t._pairs :
                 t._pairs[j] # None /\ t._pairs[j][1] = k][2]

\* C15 (candidate selection): every word generate_text produces is an
\* element of the list recorded for the current key, at an index from 0 to
\* the list's length minus one; a list of exactly one word yields that word
\* and the random source is not asked; a draw is taken only from a list of
\* at least two words.
C15_Selection ==
    [][ (pc = "gen_loop" /\ tlist' # tlist)
          => LET candidates == ValuesOf(table, join(prefix))
             IN  /\ \E i \in 0..(Len(candidates) - 1) :
                        tlist' = Append(tlist, candidates[i + 1])
                 /\ Len(candidates) = 1
                        => draws' = draws /\ tlist' = Append(tlist, candidates[1])
                 /\ draws' # draws
                        => draws' = draws + 1 /\ Len(candidates) >= 2 ]_vars

\* C15's case: a generation has produced words from one-word lists without
\* a draw and has drawn the last element of a list of two.
C15_Witness ==
    /\ pc = "gen_loop" /\ draws = 1 /\ Len(tlist) >= 3
    /\ \E j \in DOMAIN table._pairs :
          /\ table._pairs[j] # None
          /\ Len(table._pairs[j][2]) = 2
          /\ table._pairs[j][2][1] # table._pairs[j][2][2]
          /\ tlist[Len(tlist)] = table._pairs[j][2][2]
          /\ table._pairs[j][1] = join(Window(tlist, prefix_size, Len(tlist)))

\* C16 (empty corpus): with a prefix size of at least 1 and a table of at
\* least one slot, the build on a corpus of no words leaves every slot of
\* the table empty, and generate_text returns the empty list of words for
\* every word count: no call raises, put is never entered.
C16_EmptyCorpus ==
    (file = <<>> /\ table_size >= 1 /\ prefix_size >= 1)
        => /\ pc \in {"start", "exit", "read", "build", "build_loop",
                      "generate", "gen_loop", "done"}
           /\ table.made => \A j \in DOMAIN table._pairs : table._pairs[j] = None
           /\ Built => tlist = <<>>

\* C16's case: generate_text has returned for a corpus of no words, a
\* prefix of two words, a table of several slots and a count above 1.
C16_Witness ==
    /\ pc = "done" /\ file = <<>> /\ tlist = <<>>
    /\ prefix_size = 2 /\ table_size >= 2 /\ word_count >= 2
    /\ table.made /\ \A j \in DOMAIN table._pairs : table._pairs[j] = None

\* C17 (probe path): in every table the puts have reached, each occupied
\* slot j lies at the end of an unbroken run: with k the key of slot j,
\* every slot on the walk from k's home slot downward, round from slot 0 to
\* the last slot, as far as j is occupied.  Hence get, which stops at the
\* first empty slot, does not stop before the slot put chose.
C17_ProbePath ==
    \A j \in DOMAIN table._pairs :
        table._pairs[j] # None
            => LET h == _hash(table, table._pairs[j][1])
               IN  \A d \in 0..PyMod(h - j, table._size) :
                      table._pairs[Down(table, h, d)] # None

\* C17's case: a get has found its key two slots below the key's home
\* slot, behind two slots that hold other keys.
C17_Witness ==
    /\ pc = "get_done" /\ get_frame.result # None
    /\ get_frame.probes >= 3
    /\ PyMod(get_frame.start - get_frame.i, table._size) >= 2
    /\ table._pairs[get_frame.i][1] = get_frame.key

\* the elements of a list
Elements(list) == {list[a] : a \in 1..Len(list)}

\* C18 (observed transitions): every word of generate_text's output was
\* recorded during ingestion as a follower of the n words that precede it in
\* the output (sentinels before the output's start): the corpus holds that
\* window followed by that word.  When the corpus is not empty and holds no
\* sentinel word, and the count is at least 1, the first word of the output
\* is the first word of the corpus.
C18_Observed ==
    pc \in {"gen_loop", "done"}
        => /\ \A m \in 1..Len(tlist) :
                 tlist[m] \in Elements(Followers(file, prefix_size,
                                  Window(tlist, prefix_size, m), Len(file)))
           /\ (pc = "done" /\ file # <<>> /\ NONWORD \notin Elements(file)
                  /\ word_count >= 1)
                 => Len(tlist) >= 1 /\ tlist[1] = file[1]

\* C18's case: an output of three words over windows of two words, from a
\* corpus without a sentinel word in which a window has two followers; the
\* output is not the corpus's start.
C18_Witness ==
    /\ pc = "done" /\ prefix_size = 2 /\ Len(tlist) >= 3
    /\ NONWORD \notin Elements(file)
    /\ tlist[1] = file[1]
    /\ tlist # SubSeq(file, 1, Len(tlist))

\* ============================================================ huffman.py
\* A BinaryTree node is the tuple <<_value, _left, _right>> of its fields;
\* a child that is None is the empty sequence.  The trees the program
\* builds share no nodes, so a node is identified with the subtree below it.

MaxNodes == 5
MaxBits == 4

\* BinaryTree(value): a node without children
BinaryTree(value) == <<value, None, None>>

\* list[lo:hi] for indices lo, hi >= 0 (a slice never raises)
Slice(list, lo, hi) ==
    IF lo >= Len(list) \/ hi <= lo THEN <<>>
    ELSE SubSeq(list, lo + 1, IF hi < Len(list) THEN hi ELSE Len(list))

\* list.index(value), for a value the list holds: the first index of it
index(list, value) ==
    CHOOSE a \in 0..(Len(list) - 1) :
        /\ list[a + 1] = value
        /\ \A b \in 0..(a - 1) : list[b + 1] # value

\* build_tree with a fault: the left subtree's preorder is cut one short,
\* preorder[1:mid_index]
RECURSIVE build_treeShort(_, _)
build_treeShort(pre, ino) ==
    IF pre = <<>> \/ ino = <<>> THEN None
    ELSE LET root_val == pre[1]
             mid_index == index(ino, root_val)
         IN  [BinaryTree(root_val) EXCEPT
                ![2] = build_treeShort(Slice(pre, 1, mid_index),
                                       Slice(ino, 0, mid_index)),
                ![3] = build_treeShort(Slice(pre, 1 + mid_index, Len(pre)),
                                       Slice(ino, mid_index + 1, Len(ino)))]

\* build_tree(preorder, inorder), for lists in which inorder holds
\* preorder[0] at every level of the recursion (index does not raise)
RECURSIVE build_tree(_, _)
build_tree(pre, ino) ==
    IF pre = <<>> \/ ino = <<>> THEN None
    ELSE LET root_val == pre[1]
             mid_index == index(ino, root_val)
         IN  [BinaryTree(root_val) EXCEPT
                ![2] = build_tree(Slice(pre, 1, 1 + mid_index),
                                  Slice(ino, 0, mid_index)),
                ![3] = build_tree(Slice(pre, 1 + mid_index, Len(pre)),
                                  Slice(ino, mid_index + 1, Len(ino)))]

\* postorder_traversal(root)
RECURSIVE postorder_traversal(_)
postorder_traversal(n) ==
    IF n = None THEN <<>>
    ELSE postorder_traversal(n[2]) \o postorder_traversal(n[3]) \o <<n[1]>>

\* str(v) for an int: its decimal digits, a minus sign before them if v < 0
RECURSIVE str(_)
str(v) ==
    IF v < 0 THEN <<45>> \o str(0 - v)
    ELSE IF v < 10 THEN <<48 + v>>
    ELSE str(v \div 10) \o <<48 + (v % 10)>>

\* main's loop over the postorder: post_order_concat += str(i) + " "
RECURSIVE Concat(_)
Concat(list) ==
    IF list = <<>> THEN <<>>
    ELSE str(list[1]) \o <<32>> \o Concat(Tail(list))

\* ------------------------------------------------- the input file's trees

\* the number of nodes of a tree
RECURSIVE Size(_)
Size(n) == IF n = None THEN 0 ELSE 1 + Size(n[2]) + Size(n[3])

\* the trees of exactly k nodes, every value 0
RECURSIVE Shapes(_)
Shapes(k) ==
    IF k = 0 THEN {None}
    ELSE UNION {{<<0, l, r>> : l \in Shapes(a), r \in Shapes(k - 1 - a)} :
                  a \in 0..(k - 1)}

\* a shape with the values v, v + 1, ... given out in preorder, in inorder,
\* in postorder
RECURSIVE LabelPre(_, _)
LabelPre(n, v) ==
    IF n = None THEN None
    ELSE <<v, LabelPre(n[2], v + 1), LabelPre(n[3], v + 1 + Size(n[2]))>>

RECURSIVE LabelIn(_, _)
LabelIn(n, v) ==
    IF n = None THEN None
    ELSE <<v + Size(n[2]), LabelIn(n[2], v), LabelIn(n[3], v + Size(n[2]) + 1)>>

RECURSIVE LabelPost(_, _)
LabelPost(n, v) ==
    IF n = None THEN None
    ELSE <<v + Size(n[2]) + Size(n[3]),
           LabelPost(n[2], v), LabelPost(n[3], v + Size(n[2]))>>

\* a shape with the one value v in every node
RECURSIVE LabelSame(_, _)
LabelSame(n, v) ==
    IF n = None THEN None
    ELSE <<v, LabelSame(n[2], v), LabelSame(n[3], v)>>

\* The trees of the input files: every shape of up to MaxNodes nodes, its
\* values pairwise distinct in three orders (from 8 on, so that values of
\* one and of two digits occur) or all the same.
Trees ==
    UNION {{LabelPre(s, 8), LabelIn(s, 8), LabelPost(s, 8), LabelSame(s, 8)} :
             s \in UNION {Shapes(k) : k \in 0..MaxNodes}}

\* the traversals the first two lines of an input file hold
RECURSIVE Preorder(_)
Preorder(n) ==
    IF n = None THEN <<>> ELSE <<n[1]>> \o Preorder(n[2]) \o Preorder(n[3])

RECURSIVE Inorder(_)
Inorder(n) ==
    IF n = None THEN <<>> ELSE Inorder(n[2]) \o <<n[1]>> \o Inorder(n[3])

\* the strings of '0' and '1' of up to k characters
RECURSIVE Bits(_)
Bits(k) ==
    IF k = 0 THEN {<<>>}
    ELSE Bits(k - 1) \cup {Append(b, c) : b \in Bits(k - 1), c \in {48, 49}}

\* ------------------------------------------------------- huffman's main

\* writer_bot.py is not running
WriterIdle ==
    /\ pc = "none" /\ table_size = 0 /\ prefix_size = 0 /\ word_count = 0
    /\ file = <<>> /\ contents = None /\ table = NoTable /\ idx = 0
    /\ prefix = <<>> /\ put_frame = NoPut /\ get_frame = NoGet
    /\ tlist = <<>> /\ draws = 0 /\ printed = None
    /\ recorded = [k \in Keys |-> <<>>] /\ dup = FALSE

HuffInit ==
    /\ WriterIdle
    /\ hpc = "start" /\ tree = None /\ preorder = <<>> /\ inorder = <<>>
    /\ binary_string = <<>> /\ root = None /\ post_order_concat = <<>>
    /\ node = None /\ pos = 0 /\ decoded_sequence = <<>>

\* preorder, inorder, binary_string = read_input_file(): the file holds the
\* two traversals of some tree and a string of bits
ReadInputFile ==
    /\ hpc = "start"
    /\ \E t \in Trees, b \in Bits(MaxBits) :
          /\ tree' = t
          /\ preorder' = Preorder(t)
          /\ inorder' = Inorder(t)
          /\ binary_string' = b
    /\ hpc' = "build"
    /\ UNCHANGED <<root, post_order_concat, node, pos, decoded_sequence>>
    /\ UNCHANGED wvars

\* root = build_tree(preorder, inorder)
BuildTree ==
    /\ hpc = "build"
    /\ root' = build_tree(preorder, inorder)
    /\ hpc' = "print"
    /\ UNCHANGED <<tree, preorder, inorder, binary_string, post_order_concat,
                   node, pos, decoded_sequence>>
    /\ UNCHANGED wvars

\* the postorder is traversed, concatenated and printed
PrintPostorder ==
    /\ hpc = "print"
    /\ post_order_concat' = Concat(postorder_traversal(root))
    /\ hpc' = "decode"
    /\ UNCHANGED <<tree, preorder, inorder, binary_string, root,
                   node, pos, decoded_sequence>>
    /\ UNCHANGED wvars

\* decode_huffman is called: decoded_sequence = "", node = root
DecodeCall ==
    /\ hpc = "decode"
    /\ decoded_sequence' = <<>>
    /\ node' = root
    /\ pos' = 1
    /\ hpc' = "decode_loop"
    /\ UNCHANGED <<tree, preorder, inorder, binary_string, root,
                   post_order_concat>>
    /\ UNCHANGED wvars

\* the move with a fault: left and right are exchanged
ChildSwapped(n, num) == IF num = 48 THEN n[3] ELSE n[2]

\* if num == "0": node = node._left   else: node = node._right
Child(n, num) == IF num = 48 THEN n[2] ELSE n[3]

\* node and not node._left and not node._right
AtLeaf(n) == n # None /\ n[2] = None /\ n[3] = None

\* One pass of decode_huffman's for loop, or its end (the string returned
\* is printed).  A move from None raises AttributeError.
DecodeStep ==
    /\ hpc = "decode_loop"
    /\ IF pos > Len(binary_string)
         THEN /\ hpc' = "done"
              /\ UNCHANGED <<node, pos, decoded_sequence>>
         ELSE IF node = None
         THEN /\ hpc' = "AttributeError"
              /\ UNCHANGED <<node, pos, decoded_sequence>>
         ELSE LET next == Child(node, binary_string[pos])
              IN  /\ IF AtLeaf(next)
                       THEN /\ decoded_sequence' = decoded_sequence \o str(next[1])
                            /\ node' = root
                       ELSE /\ node' = next
                            /\ UNCHANGED decoded_sequence
                  /\ pos' = pos + 1
                  /\ UNCHANGED hpc
    /\ UNCHANGED <<tree, preorder, inorder, binary_string, root,
                   post_order_concat>>
    /\ UNCHANGED wvars

HuffNext ==
    \/ ReadInputFile
    \/ BuildTree
    \/ PrintPostorder
    \/ DecodeCall
    \/ DecodeStep

HuffSpec == HuffInit /\ [][HuffNext]_vars

\* ----------------------------------------------------- claims on huffman

\* the values of a tree's nodes are pairwise distinct
Distinct(n) == Cardinality(Elements(Preorder(n))) = Size(n)

\* C19 (reconstruction round trip): for every tree whose values are
\* pairwise distinct, build_tree on the tree's preorder and inorder returns
\* a tree equal to it in structure and values, so the postorder printed is
\* the tree's postorder; from two empty lists it returns no node and the
\* postorder is empty.
C19_RoundTrip ==
    Distinct(tree)
        => /\ hpc \notin {"start", "build"} => root = tree
           /\ hpc \notin {"start", "build", "print"}
                 => post_order_concat = Concat(postorder_traversal(tree))
           /\ (hpc \notin {"start", "build", "print"} /\ preorder = <<>>)
                 => root = None /\ post_order_concat = <<>>

\* C19's case: the postorder of a tree of five nodes has been printed, a
\* tree in which some node has a left child only and some node a right
\* child only.
C19_Witness ==
    /\ hpc = "decode" /\ Distinct(tree) /\ Size(tree) = 5
    /\ root = tree
    /\ post_order_concat # Concat(Preorder(tree))
    /\ post_order_concat # Concat(Inorder(tree))
    /\ tree[2] # None /\ tree[2][2] = None /\ tree[2][3] # None
    /\ tree[3] # None /\ tree[3][3] = None /\ tree[3][2] # None

\* every node of the tree has two children or none
RECURSIVE TwoOrNone(_)
TwoOrNone(n) ==
    \/ n[2] = None /\ n[3] = None
    \/ n[2] # None /\ n[3] # None /\ TwoOrNone(n[2]) /\ TwoOrNone(n[3])

\* a decoding tree: at least one node with children, none with one child
Proper(n) == n # None /\ n[2] # None /\ TwoOrNone(n)

\* the code words of a tree: the path to each leaf ('0' left, '1' right)
\* with the leaf's value
RECURSIVE Codes(_, _)
Codes(n, path) ==
    IF n[2] = None /\ n[3] = None THEN {<<path, n[1]>>}
    ELSE (IF n[2] = None THEN {} ELSE Codes(n[2], Append(path, 48)))
         \cup (IF n[3] = None THEN {} ELSE Codes(n[3], Append(path, 49)))

\* word is the start of bits
StartOf(word, bits) ==
    Len(word) <= Len(bits) /\ SubSeq(bits, 1, Len(word)) = word

\* the values of the code words that bits is made of, one after the other,
\* as digits; bits left over that are no whole code word give nothing
RECURSIVE Parse(_, _)
Parse(codes, bits) ==
    IF \E c \in codes : StartOf(c[1], bits)
    THEN LET c == CHOOSE c \in codes : StartOf(c[1], bits)
         IN  str(c[2]) \o Parse(codes, SubSeq(bits, Len(c[1]) + 1, Len(bits)))
    ELSE <<>>

\* C20 (decoding walk): on a tree with at least one inner node, in which
\* every inner node has both children, and for every string of '0' and '1',
\* decode_huffman never moves from or onto an absent node; it moves left on
\* '0' and right on '1'; it adds a node's value to the output exactly when
\* it arrives at a leaf, and then starts again from the root; bits at the
\* end that stop at an inner node add nothing.  The output is the values of
\* the leaves reached, in order.
C20_Decode ==
    [][ (hpc = "decode_loop" /\ Proper(root))
          => /\ hpc' # "AttributeError" /\ node # None /\ node' # None
             /\ pos' # pos
                  => LET to == IF binary_string[pos] = 48 THEN node[2]
                                                          ELSE node[3]
                     IN  /\ pos' = pos + 1 /\ to # None
                         /\ IF to[2] = None /\ to[3] = None
                              THEN /\ decoded_sequence'
                                        = decoded_sequence \o str(to[1])
                                   /\ node' = root
                              ELSE /\ decoded_sequence' = decoded_sequence
                                   /\ node' = to
             /\ pos' = pos
                  => /\ hpc' = "done" /\ pos > Len(binary_string)
                     /\ decoded_sequence' = decoded_sequence
             /\ decoded_sequence'
                  = Parse(Codes(root, <<>>), SubSeq(binary_string, 1, pos' - 1))
      ]_vars

\* C20's case: a string of four bits has been decoded on a tree of five
\* nodes: leaves at depth 1 and depth 2 were reached, one of them with a
\* value of two digits, and the last bit stopped at the inner node.
C20_Witness ==
    /\ hpc = "done" /\ Proper(root) /\ Size(root) = 5
    /\ Len(binary_string) >= 4
    /\ Len(decoded_sequence) = 3 /\ decoded_sequence[2] = 49
    /\ node # root /\ node # None

====
